---- MODULE Spec2Model ----
(***************************************************************************)
(* Model of the aws_health_check Express middleware (src/index.js, final   *)
(* variant, lines 1-106): the process-wide healthiness flag, its three     *)
(* control operations, configuration normalisation in healthCheck and the  *)
(* heartbeat request handler with its fan-out of fs.stat checks joined by   *)
(* async.each.                                                             *)
(***************************************************************************)
EXTENDS Integers, Sequences, FiniteSets, TLC

\* ---------------------------------------------------------------- bounds
\* Number of handler invocations (requests) in one run.
MaxReq == 2
\* Largest number of entries of options.requiredLocalPaths.
MaxPaths == 2

\* ------------------------------------------------------------- constants
\* Strings are sequences of one-character strings.
DefaultPath == <<"/", "h", "e", "a", "r", "t", "b", "e", "a", "t">>
CustomPath == <<"/", "h", "z">>
NoSlashPath == <<"h", "z">>
\* Names of local paths, in configuration order.
LocalPathNames == <<"a", "b", "c", "d">>

\* JavaScript values as they appear in the configuration object:
\* a type tag and, for strings and arrays, the contents.
JsUndefined == [type |-> "undefined", val |-> <<>>]
JsNumber == [type |-> "number", val |-> <<>>]
JsString(s) == [type |-> "string", val |-> s]
JsArray(a) == [type |-> "array", val |-> a]

PathInputs ==
    {JsUndefined, JsNumber, JsString(<<>>), JsString(NoSlashPath),
     JsString(CustomPath)}
LocalPathsArrays(m) == {JsArray(SubSeq(LocalPathNames, 1, n)) : n \in 0..m}
LocalPathsInputs == {JsUndefined, JsString(<<"a">>)} \cup LocalPathsArrays(1)
\* Every path input with every short requiredLocalPaths input, and the
\* longer arrays with the path left out.
Configurations ==
    [kind : {"object"}, path : PathInputs,
     requiredLocalPaths : LocalPathsInputs]
        \cup [kind : {"object"}, path : {JsUndefined},
              requiredLocalPaths : LocalPathsArrays(MaxPaths)]
\* Arguments that are not objects: none, null, a string, a number.  Reading
\* a property of a string or a number gives undefined.
NonObjects ==
    [kind : {"undefined", "null", "string", "number"},
     path : {JsUndefined}, requiredLocalPaths : {JsUndefined}]
Arguments == Configurations \cup NonObjects

\* Request URLs and methods offered to the handler.
Urls == {DefaultPath, CustomPath \o <<"?", "a">>}
Methods == {"GET", "POST"}

VARIABLES
    isHealthy,  \* the module-level flag
    isHealthyEarlier, \* the flag of the earlier variant (line 115)
    config,     \* the configuration object handed to healthCheck
    options,    \* the normalised options captured by heartbeat
    reqs,       \* one record per handler invocation
    reqsEarlier, \* the same invocations handled by the earlier variant
    lastOp      \* history: the most recent control operation, whether the
                \* one before it was the same operation, and whether a
                \* request had checks outstanding when it ran

vars ==
    <<isHealthy, isHealthyEarlier, config, options, reqs, reqsEarlier, lastOp>>

Reqs == 1..MaxReq

\* --------------------------------------------------------- configuration
\* _.isString(p) && p.length && p.startsWith('/')
validPath(p) ==
    /\ p.type = "string"
    /\ Len(p.val) # 0
    /\ Head(p.val) = "/"

\* Variant: any non-empty string is accepted as the path.
healthCheck_anyString(cfg) ==
    [state |-> "ok",
     path |-> IF cfg.path.type = "string" /\ Len(cfg.path.val) # 0
              THEN cfg.path.val ELSE DefaultPath,
     requiredLocalPaths |->
        IF cfg.requiredLocalPaths.type = "array"
        THEN cfg.requiredLocalPaths.val
        ELSE <<>>]

\* healthCheck(options = {}): the normalisation done once at construction.
\* The default {} replaces only a missing argument.  Reading options.path
\* of null raises a TypeError (state "threw": no handler is returned).  On
\* a string or a number the two assignments have no effect, so the
\* handler's options.path and options.requiredLocalPaths stay undefined
\* (state "unset").
healthCheck(cfg) ==
    IF cfg.kind = "null"
    THEN [state |-> "threw", path |-> <<>>, requiredLocalPaths |-> <<>>]
    ELSE IF cfg.kind \in {"string", "number"}
    THEN [state |-> "unset", path |-> <<>>, requiredLocalPaths |-> <<>>]
    ELSE [state |-> "ok",
          path |-> IF validPath(cfg.path) THEN cfg.path.val ELSE DefaultPath,
          requiredLocalPaths |->
             IF cfg.requiredLocalPaths.type = "array"
             THEN cfg.requiredLocalPaths.val
             ELSE <<>>]

\* parseUrl(req).pathname: the URL up to the first '?'.
pathname(url) ==
    LET qs == {i \in 1..Len(url) : url[i] = "?"} IN
    IF qs = {} THEN url
    ELSE SubSeq(url, 1, (CHOOSE i \in qs : \A j \in qs : i <= j) - 1)

\* --------------------------------------------------------------- handler
\* A handler invocation before it is called.  sent and nexts list the calls
\* of res.sendStatus and of next; stat holds the state of each fs.stat call;
\* completed and called are the counter and the once-latch of async.each;
\* read is the value of the flag when the invocation read it.
IdleReq(n) ==
    [pc |-> "idle", url |-> <<>>, method |-> "", read |-> "none",
     stat |-> [i \in 1..n |-> "none"],
     completed |-> 0, called |-> FALSE,
     sent |-> <<>>, nexts |-> <<>>]

sendStatus(req, code) == [req EXCEPT !.sent = Append(@, code)]
next(req, arg) == [req EXCEPT !.nexts = Append(@, arg)]
\* res.sendStatus(isHealthy ? 200 : 503)
sendHealth(req, flag) ==
    sendStatus([req EXCEPT !.read = IF flag THEN "true" ELSE "false"],
               IF flag THEN 200 ELSE 503)

\* Variant: the completion callback answers 200 whatever the flag.
eachDone_always200(req, err, flag) ==
    IF err THEN next(req, "err")
    ELSE sendStatus(req, 200)

\* Variant: the completion callback answers the error itself with 503.
eachDone_errResponds(req, err, flag) ==
    IF err THEN sendStatus(req, 503)
    ELSE sendHealth(req, flag)

\* Variant: a success is handed to next instead of being answered.
eachDone_okCallsNext(req, err, flag) ==
    IF err THEN next(req, "err")
    ELSE next(req, "undefined")

\* The completion callback given to async.each (lines 93-96).
eachDone(req, err, flag) ==
    IF err THEN next(req, "err")
    ELSE sendHealth(req, flag)

\* Variant: the completion callback is not latched, so every error reaches
\* it.
eachCb_noOnce(req, err, flag) ==
    IF err
    THEN eachDone([req EXCEPT !.called = TRUE], TRUE, flag)
    ELSE LET r1 == [req EXCEPT !.completed = @ + 1] IN
         IF r1.completed = Len(r1.stat)
         THEN eachDone([r1 EXCEPT !.called = TRUE], FALSE, flag)
         ELSE r1

\* eachCb: the callback async.each gives the iteratee.  The completion
\* callback runs once: on the first error, or when every item succeeded.
eachCb(req, err, flag) ==
    IF err
    THEN IF req.called THEN req
         ELSE eachDone([req EXCEPT !.called = TRUE], TRUE, flag)
    ELSE LET r1 == [req EXCEPT !.completed = @ + 1] IN
         IF r1.completed = Len(r1.stat) /\ ~r1.called
         THEN eachDone([r1 EXCEPT !.called = TRUE], FALSE, flag)
         ELSE r1

\* The callback of fs.stat for the i-th required local path (lines 85-91).
statCallback(req, i, err, flag) ==
    eachCb([req EXCEPT !.stat[i] = IF err THEN "err" ELSE "ok"], err, flag)

\* Variant: path and method are validated before the fast path.
heartbeatCall_pathFirst(req, opts, url, method, flag) ==
    LET r0 == [req EXCEPT !.pc = "returned", !.url = url,
                          !.method = method] IN
    IF opts.state = "unset"
    THEN [r0 EXCEPT !.pc = "threw"]
    ELSE IF pathname(url) # opts.path
    THEN next(r0, "undefined")
    ELSE IF method # "GET"
    THEN sendStatus(r0, 405)
    ELSE IF Len(opts.requiredLocalPaths) = 0
    THEN sendHealth(r0, flag)
    ELSE [r0 EXCEPT
            !.stat = [i \in 1..Len(opts.requiredLocalPaths) |-> "pending"]]

\* Variant: the method is validated before the path.
heartbeatCall_methodFirst(req, opts, url, method, flag) ==
    LET r0 == [req EXCEPT !.pc = "returned", !.url = url,
                          !.method = method] IN
    IF opts.state = "unset"
    THEN [r0 EXCEPT !.pc = "threw"]
    ELSE IF Len(opts.requiredLocalPaths) = 0
    THEN sendHealth(r0, flag)
    ELSE IF method # "GET"
    THEN sendStatus(r0, 405)
    ELSE IF pathname(url) # opts.path
    THEN next(r0, "undefined")
    ELSE [r0 EXCEPT
            !.stat = [i \in 1..Len(opts.requiredLocalPaths) |-> "pending"]]

\* Variant: the checks are issued before path and method are validated.
heartbeatCall_statFirst(req, opts, url, method, flag) ==
    LET r0 == [req EXCEPT !.pc = "returned", !.url = url,
                          !.method = method]
        r1 == [r0 EXCEPT
                 !.stat = [i \in 1..Len(opts.requiredLocalPaths) |->
                             "pending"]] IN
    IF opts.state = "unset"
    THEN [r0 EXCEPT !.pc = "threw"]
    ELSE IF Len(opts.requiredLocalPaths) = 0
    THEN sendHealth(r0, flag)
    ELSE IF pathname(url) # opts.path
    THEN next(r1, "undefined")
    ELSE IF method # "GET"
    THEN sendStatus(r1, 405)
    ELSE r1

\* Variant: the method is not validated.
heartbeatCall_anyMethod(req, opts, url, method, flag) ==
    LET r0 == [req EXCEPT !.pc = "returned", !.url = url,
                          !.method = method] IN
    IF opts.state = "unset"
    THEN [r0 EXCEPT !.pc = "threw"]
    ELSE IF Len(opts.requiredLocalPaths) = 0
    THEN sendHealth(r0, flag)
    ELSE IF pathname(url) # opts.path
    THEN next(r0, "undefined")
    ELSE [r0 EXCEPT
            !.stat = [i \in 1..Len(opts.requiredLocalPaths) |-> "pending"]]

\* The synchronous part of heartbeat(req, res, next) (lines 68-92).  With
\* options.requiredLocalPaths undefined, reading its length raises a
\* TypeError (pc "threw").
heartbeatCall(req, opts, url, method, flag) ==
    LET r0 == [req EXCEPT !.pc = "returned", !.url = url,
                          !.method = method] IN
    IF opts.state = "unset"
    THEN [r0 EXCEPT !.pc = "threw"]
    ELSE IF Len(opts.requiredLocalPaths) = 0
    THEN sendHealth(r0, flag)
    ELSE IF pathname(url) # opts.path
    THEN next(r0, "undefined")
    ELSE IF method # "GET"
    THEN sendStatus(r0, 405)
    ELSE [r0 EXCEPT
            !.stat = [i \in 1..Len(opts.requiredLocalPaths) |-> "pending"]]

\* ------------------------------------------------------- earlier variant
\* The earlier handler of the same file (lines 161-191), built by the same
\* normalisation (lines 142-159 repeat lines 49-66).

\* Its completion callback (lines 186-189): 200 whatever the flag.
eachDoneEarlier(req, err, flag) ==
    IF err THEN next(req, "err")
    ELSE sendStatus(req, 200)

eachCbEarlier(req, err, flag) ==
    IF err
    THEN IF req.called THEN req
         ELSE eachDoneEarlier([req EXCEPT !.called = TRUE], TRUE, flag)
    ELSE LET r1 == [req EXCEPT !.completed = @ + 1] IN
         IF r1.completed = Len(r1.stat) /\ ~r1.called
         THEN eachDoneEarlier([r1 EXCEPT !.called = TRUE], FALSE, flag)
         ELSE r1

\* Its fs.stat callback (lines 178-184).
statCallbackEarlier(req, i, err, flag) ==
    eachCbEarlier([req EXCEPT !.stat[i] = IF err THEN "err" ELSE "ok"],
                  err, flag)

\* Variant: the earlier fast path answers 200 whatever the flag.
heartbeatCallEarlier_fast200(req, opts, url, method, flag) ==
    LET r0 == [req EXCEPT !.pc = "returned", !.url = url,
                          !.method = method] IN
    IF opts.state = "unset"
    THEN [r0 EXCEPT !.pc = "threw"]
    ELSE IF Len(opts.requiredLocalPaths) = 0
    THEN sendStatus(r0, 200)
    ELSE IF pathname(url) # opts.path
    THEN next(r0, "undefined")
    ELSE IF method # "GET"
    THEN sendStatus(r0, 405)
    ELSE [r0 EXCEPT
            !.stat = [i \in 1..Len(opts.requiredLocalPaths) |-> "pending"]]

\* The synchronous part of the earlier heartbeat (lines 161-175).
heartbeatCallEarlier(req, opts, url, method, flag) ==
    LET r0 == [req EXCEPT !.pc = "returned", !.url = url,
                          !.method = method] IN
    IF opts.state = "unset"
    THEN [r0 EXCEPT !.pc = "threw"]
    ELSE IF Len(opts.requiredLocalPaths) = 0
    THEN sendHealth(r0, flag)
    ELSE IF pathname(url) # opts.path
    THEN next(r0, "undefined")
    ELSE IF method # "GET"
    THEN sendStatus(r0, 405)
    ELSE [r0 EXCEPT
            !.stat = [i \in 1..Len(opts.requiredLocalPaths) |-> "pending"]]

\* The earlier setHealthy(status) (lines 123-125), called with the value
\* the control operation of the final variant sets.
setHealthyEarlier(status) == isHealthyEarlier' = status

\* The earlier handler is called with the same request.
heartbeatEarlier(r, url, method) ==
    reqsEarlier' =
        [reqsEarlier EXCEPT
           ![r] = heartbeatCallEarlier(@, options, url, method,
                                       isHealthyEarlier)]

\* The earlier handler's fs.stat for the same path calls back with the
\* same result.
fsStatEarlier(r, i, err) ==
    reqsEarlier' =
        [reqsEarlier EXCEPT
           ![r] = IF @.stat[i] = "pending"
                  THEN statCallbackEarlier(@, i, err, isHealthyEarlier)
                  ELSE @]

\* ---------------------------------------------------------------- actions
Init ==
    /\ isHealthy = TRUE
    /\ isHealthyEarlier = TRUE
    /\ config \in Arguments
    /\ options = healthCheck(config)
    /\ reqs = [r \in Reqs |->
                 IdleReq(Len(healthCheck(config).requiredLocalPaths))]
    /\ reqsEarlier = reqs
    /\ lastOp = [op |-> "none", twice |-> FALSE, busy |-> FALSE]

\* The history entry for a call of the control operation op.
InFlight(r) == \E i \in DOMAIN reqs[r].stat : reqs[r].stat[i] = "pending"
Record(op) ==
    [op |-> op, twice |-> lastOp.op = op, busy |-> \E r \in Reqs : InFlight(r)]

setHealthyFlag(status) ==
    /\ isHealthy' = status
    /\ setHealthyEarlier(status)
    /\ lastOp' = Record(IF status THEN "setHealthyFlag(true)"
                        ELSE "setHealthyFlag(false)")
    /\ UNCHANGED <<config, options, reqs, reqsEarlier>>

\* Variant: setHealthy flips the flag.
setHealthy_toggle ==
    /\ isHealthy' = ~isHealthy
    /\ setHealthyEarlier(TRUE)
    /\ lastOp' = Record("setHealthy")
    /\ UNCHANGED <<config, options, reqs, reqsEarlier>>

setHealthy ==
    /\ isHealthy' = TRUE
    /\ setHealthyEarlier(TRUE)
    /\ lastOp' = Record("setHealthy")
    /\ UNCHANGED <<config, options, reqs, reqsEarlier>>

\* Variant: setUnhealthy leaves the flag true.
setUnhealthy_setsTrue ==
    /\ isHealthy' = TRUE
    /\ setHealthyEarlier(TRUE)
    /\ lastOp' = Record("setUnhealthy")
    /\ UNCHANGED <<config, options, reqs, reqsEarlier>>

setUnhealthy ==
    /\ isHealthy' = FALSE
    /\ setHealthyEarlier(FALSE)
    /\ lastOp' = Record("setUnhealthy")
    /\ UNCHANGED <<config, options, reqs, reqsEarlier>>

\* The pipeline calls the handler for request r (requests are numbered in
\* order of arrival).
heartbeat(r, url, method) ==
    /\ options.state # "threw"
    /\ reqs[r].pc = "idle"
    /\ IF r = 1 THEN TRUE ELSE reqs[r - 1].pc # "idle"
    /\ reqs' = [reqs EXCEPT
                  ![r] = heartbeatCall(@, options, url, method, isHealthy)]
    /\ heartbeatEarlier(r, url, method)
    /\ UNCHANGED <<isHealthy, isHealthyEarlier, config, options, lastOp>>

\* Variant: the once-latch of async.each is shared by all invocations.
fsStat_sharedLatch(r, i, err) ==
    /\ i \in DOMAIN reqs[r].stat
    /\ reqs[r].stat[i] = "pending"
    /\ reqs' = [reqs EXCEPT
                  ![r] = statCallback(
                           [@ EXCEPT !.called = \E q \in Reqs : reqs[q].called],
                           i, err, isHealthy)]
    /\ fsStatEarlier(r, i, err)
    /\ UNCHANGED <<isHealthy, isHealthyEarlier, config, options, lastOp>>

\* Variant: a failing check also marks the instance unhealthy.
fsStat_marksUnhealthy(r, i, err) ==
    /\ i \in DOMAIN reqs[r].stat
    /\ reqs[r].stat[i] = "pending"
    /\ reqs' = [reqs EXCEPT ![r] = statCallback(@, i, err, isHealthy)]
    /\ fsStatEarlier(r, i, err)
    /\ isHealthy' = IF err THEN FALSE ELSE isHealthy
    /\ UNCHANGED <<isHealthyEarlier, config, options, lastOp>>

\* fs.stat calls back for the i-th path of request r, with or without an
\* error.
fsStat(r, i, err) ==
    /\ i \in DOMAIN reqs[r].stat
    /\ reqs[r].stat[i] = "pending"
    /\ reqs' = [reqs EXCEPT ![r] = statCallback(@, i, err, isHealthy)]
    /\ fsStatEarlier(r, i, err)
    /\ UNCHANGED <<isHealthy, isHealthyEarlier, config, options, lastOp>>

Next ==
    \/ \E status \in BOOLEAN : setHealthyFlag(status)
    \/ setHealthy
    \/ setUnhealthy
    \/ \E r \in Reqs, url \in Urls, method \in Methods :
          heartbeat(r, url, method)
    \/ \E r \in Reqs, i \in 1..MaxPaths, err \in BOOLEAN : fsStat(r, i, err)

Spec == Init /\ [][Next]_vars

\* Every fs.stat that was issued calls back, with or without an error.
Fairness ==
    \A r \in Reqs, i \in 1..MaxPaths :
        WF_vars(\E err \in BOOLEAN : fsStat(r, i, err))
FairSpec == Spec /\ Fairness

\* ------------------------------------------------------------ properties
NoLocalPaths == options.state = "ok" /\ Len(options.requiredLocalPaths) = 0
HasLocalPaths == options.state = "ok" /\ Len(options.requiredLocalPaths) # 0
Called(r) == reqs[r].pc # "idle"
Arrives(r) == reqs[r].pc = "idle" /\ reqs'[r].pc # "idle"
PathMatches(r) == pathname(reqs[r].url) = options.path
NoStatIssued(r) == \A i \in DOMAIN reqs[r].stat : reqs[r].stat[i] = "none"
AllStatOk(r) ==
    /\ DOMAIN reqs[r].stat # {}
    /\ \A i \in DOMAIN reqs[r].stat : reqs[r].stat[i] = "ok"
SomeStatErr(r) == \E i \in DOMAIN reqs[r].stat : reqs[r].stat[i] = "err"
StatusOf(flag) == IF flag THEN 200 ELSE 503
\* The request's last check has just succeeded, all others having succeeded.
Completes(r) == ~AllStatOk(r) /\ AllStatOk(r)'
\* The flag value the control operation op leaves, per its documentation.
HealthyAfter(op) == op \in {"none", "setHealthy", "setHealthyFlag(true)"}

\* C1: every handler invocation produces at most one outcome: the calls of
\* res.sendStatus and of next together number at most one, for every
\* request, configuration, check result and completion order.
C1_AtMostOneOutcome ==
    \A r \in Reqs : Len(reqs[r].sent) + Len(reqs[r].nexts) <= 1

\* Two checks of one request have both failed, and next was called once.
C1_Witness ==
    \E r \in Reqs :
        /\ Len(reqs[r].stat) >= 2
        /\ \A i \in DOMAIN reqs[r].stat : reqs[r].stat[i] = "err"
        /\ reqs[r].nexts = <<"err">>
        /\ reqs[r].sent = <<>>

\* C2: a request whose URL path differs from the configured path is passed
\* to next and gets no response, whatever requiredLocalPaths is.
C2_MismatchIsNoOp ==
    \A r \in Reqs :
        Called(r) /\ ~PathMatches(r) =>
            reqs[r].sent = <<>> /\ reqs[r].nexts = <<"undefined">>

C4_AllOkIs200 ==
    \A r \in Reqs :
        /\ AllStatOk(r) => reqs[r].sent = <<200>>
        /\ (\E k \in DOMAIN reqs[r].sent : reqs[r].sent[k] = 503)
              => NoLocalPaths

\* C4 (amended): with local paths configured, a matching GET whose checks
\* all succeed is answered, when the last check completes, with 200 if
\* isHealthy is true and 503 if it is false, and next is not called; a 503
\* is written only in a step in which isHealthy is false.
C4_AllOkIsFlagStatus ==
    /\ [][\A r \in Reqs :
            /\ Completes(r) =>
                  /\ reqs[r].method = "GET" /\ PathMatches(r)
                  /\ reqs'[r].sent = <<StatusOf(isHealthy)>>
                  /\ reqs'[r].nexts = <<>>
            /\ (reqs'[r].sent # reqs[r].sent
                   /\ reqs'[r].sent[Len(reqs'[r].sent)] = 503)
                  => ~isHealthy]_vars
    /\ [](\A r \in Reqs :
            AllStatOk(r) =>
                /\ Len(reqs[r].sent) = 1
                /\ reqs[r].sent[1] \in {200, 503}
                /\ reqs[r].nexts = <<>>)

\* Every check of a request with two local paths succeeded while the flag
\* was false, and the request was answered 503.
C4_Witness ==
    \E r \in Reqs :
        /\ Len(reqs[r].stat) >= 2
        /\ AllStatOk(r)
        /\ reqs[r].sent = <<503>>

\* C5: when a check of a matching GET fails, next is called with the error
\* and no response is written, whichever check fails and in whatever order
\* the checks complete.
C5_FailureForwarded ==
    \A r \in Reqs :
        SomeStatErr(r) =>
            /\ reqs[r].nexts = <<"err">>
            /\ reqs[r].sent = <<>>
            /\ reqs[r].method = "GET" /\ PathMatches(r) /\ HasLocalPaths

\* Of two checks the first succeeded and the second failed, and the error
\* went to next.
C5_Witness ==
    \E r \in Reqs :
        /\ Len(reqs[r].stat) >= 2
        /\ reqs[r].stat[1] = "ok"
        /\ reqs[r].stat[2] = "err"
        /\ reqs[r].nexts = <<"err">>

\* C6: with local paths configured, a request to a path other than the
\* configured one calls next with no argument and writes no response,
\* whatever its method and the flag; no check is issued.
C6_PassThrough ==
    \A r \in Reqs :
        HasLocalPaths /\ Called(r) /\ ~PathMatches(r) =>
            /\ reqs[r].nexts = <<"undefined">>
            /\ reqs[r].sent = <<>>
            /\ NoStatIssued(r)

\* A POST to another path was passed through while the flag was false.
C6_Witness ==
    \E r \in Reqs :
        /\ HasLocalPaths
        /\ ~PathMatches(r)
        /\ reqs[r].method = "POST"
        /\ reqs[r].nexts = <<"undefined">>
        /\ ~isHealthy

\* C7: with local paths configured, a non-GET request to the configured
\* path is answered exactly 405: next is not called, no check is issued,
\* and the flag has no influence.
C7_MethodNotAllowed ==
    \A r \in Reqs :
        HasLocalPaths /\ Called(r) /\ PathMatches(r)
            /\ reqs[r].method # "GET" =>
                /\ reqs[r].sent = <<405>>
                /\ reqs[r].nexts = <<>>
                /\ NoStatIssued(r)

\* A POST to the configured path (with a query string) got 405 while the
\* flag was false.
C7_Witness ==
    \E r \in Reqs :
        /\ HasLocalPaths
        /\ PathMatches(r)
        /\ reqs[r].url # options.path
        /\ reqs[r].method = "POST"
        /\ reqs[r].sent = <<405>>
        /\ ~isHealthy

\* C8: with no local paths, the status written for a request is decided by
\* the most recent control operation (200 when there was none): 503 after
\* setUnhealthy or setHealthyFlag(false), 200 after setHealthy or
\* setHealthyFlag(true).
C8_LastOperationDecides ==
    [][\A r \in Reqs :
          NoLocalPaths /\ Arrives(r) =>
              reqs'[r].sent = <<StatusOf(HealthyAfter(lastOp.op))>>]_vars

\* A request answered 503 after setUnhealthy is followed by the same
\* request answered 200 after setHealthy.
C8_Witness ==
    /\ MaxReq >= 2
    /\ NoLocalPaths
    /\ reqs[1].sent = <<503>>
    /\ reqs[2].sent = <<200>>
    /\ reqs[1].url = reqs[2].url
    /\ lastOp.op = "setHealthy"

\* C9: a control operation run while a request's checks are outstanding
\* takes effect for that request: the status written when the checks
\* complete is the one of the most recent control operation at that time.
C9_FlagReadAtCompletion ==
    [][\A r \in Reqs :
          Completes(r) =>
              reqs'[r].sent = <<StatusOf(HealthyAfter(lastOp.op))>>]_vars

\* setUnhealthy ran while the only request had checks outstanding, and the
\* request, its checks all succeeding, was answered 503.
C9_Witness ==
    /\ lastOp = [op |-> "setUnhealthy", twice |-> FALSE, busy |-> TRUE]
    /\ AllStatOk(1)
    /\ reqs[1].sent = <<503>>
    /\ \A r \in Reqs \ {1} : ~Called(r)

\* C10: setHealthy and setUnhealthy are idempotent (a second call in a row
\* leaves the flag as the first left it), setHealthyFlag(true) leaves the
\* value setHealthy leaves, and setHealthyFlag(false) the value
\* setUnhealthy leaves.
C10_ControlAlgebra ==
    /\ [][(/\ lastOp'.op = lastOp.op
            /\ lastOp'.twice
            /\ lastOp.op \in {"setHealthy", "setUnhealthy"})
              => isHealthy' = isHealthy]_vars
    /\ [](\A o1, o2 \in {"setHealthy", "setHealthyFlag(true)"} :
            lastOp.op = o1 => isHealthy = HealthyAfter(o2))
    /\ [](\A o1, o2 \in {"setUnhealthy", "setHealthyFlag(false)"} :
            lastOp.op = o1 => isHealthy = HealthyAfter(o2))

\* setUnhealthy has just been called twice in a row and the flag is false.
C10_Witness ==
    /\ lastOp.op = "setUnhealthy"
    /\ lastOp.twice
    /\ ~isHealthy

\* C11: construction with a configuration object leaves path '/heartbeat'
\* when the supplied path is absent, not a string, empty or without a
\* leading '/', and the empty sequence when requiredLocalPaths is absent or
\* not a sequence; a non-empty string starting with '/' and a supplied
\* sequence are kept unchanged.
C11_Normalised ==
    config.kind = "object" =>
        /\ options.state = "ok"
        /\ config.path \in {JsUndefined, JsNumber, JsString(<<>>),
                             JsString(NoSlashPath)}
              => options.path = DefaultPath
        /\ config.path = JsString(CustomPath) => options.path = CustomPath
        /\ config.requiredLocalPaths \in {JsUndefined, JsString(<<"a">>)}
              => options.requiredLocalPaths = <<>>
        /\ \A n \in 0..MaxPaths :
              config.requiredLocalPaths = JsArray(SubSeq(LocalPathNames, 1, n))
                  => options.requiredLocalPaths = SubSeq(LocalPathNames, 1, n)

\* Built with a path lacking the leading '/' and a requiredLocalPaths that
\* is not a sequence, the handler answered a GET of /heartbeat on the fast
\* path.
C11_Witness ==
    /\ config.path = JsString(NoSlashPath)
    /\ config.requiredLocalPaths = JsString(<<"a">>)
    /\ reqs[1].url = DefaultPath
    /\ reqs[1].method = "GET"
    /\ reqs[1].sent = <<200>>

\* C12: construction with an argument that is not an object never raises
\* and gives the handler of an empty configuration (path '/heartbeat', no
\* required local paths), which raises on no request.
C12_NonObjectIsEmpty ==
    config.kind # "object" =>
        /\ options = [state |-> "ok", path |-> DefaultPath,
                      requiredLocalPaths |-> <<>>]
        /\ \A r \in Reqs : reqs[r].pc # "threw"

\* C13: every handler invocation eventually reaches exactly one outcome
\* (a response written or next called), given that every issued fs.stat
\* calls back.
C13_EventuallyOneOutcome ==
    \A r \in Reqs :
        Called(r) ~> (Len(reqs[r].sent) + Len(reqs[r].nexts) = 1)

\* C14: isHealthy is true initially and changes only in a step of a
\* control operation; every step of a handler invocation, check failures
\* included, leaves it unchanged.
C14_FlagFrame ==
    /\ isHealthy = TRUE
    /\ [][/\ reqs' # reqs => isHealthy' = isHealthy
          /\ isHealthy' # isHealthy =>
                /\ lastOp'.op # "none"
                /\ isHealthy' = HealthyAfter(lastOp'.op)
                /\ UNCHANGED <<config, options, reqsEarlier>>]_vars

\* A check has failed, the error went to next, no control operation has
\* run and the flag is still true.
C14_Witness ==
    /\ SomeStatErr(1)
    /\ reqs[1].nexts = <<"err">>
    /\ lastOp.op = "none"
    /\ isHealthy

\* C16: checks are issued only after path and method validation: only
\* with local paths configured, a matching path and method GET, and then
\* one per configured path, all issued in the step of the call, before
\* any completes; otherwise none is issued.
C16_ChecksAfterValidation ==
    /\ [](\A r \in Reqs :
            /\ ~NoStatIssued(r) =>
                  /\ HasLocalPaths
                  /\ PathMatches(r)
                  /\ reqs[r].method = "GET"
            /\ NoStatIssued(r)
                  \/ \A i \in DOMAIN reqs[r].stat : reqs[r].stat[i] # "none")
    /\ [][\A r \in Reqs :
            Arrives(r) =>
                IF HasLocalPaths /\ reqs'[r].method = "GET"
                    /\ pathname(reqs'[r].url) = options.path
                THEN reqs'[r].stat =
                       [i \in 1..Len(options.requiredLocalPaths) |-> "pending"]
                ELSE reqs'[r].stat = reqs[r].stat]_vars

\* A matching GET has just issued its two checks and none has completed.
C16_Witness ==
    \E r \in Reqs :
        /\ Len(reqs[r].stat) >= 2
        /\ \A i \in DOMAIN reqs[r].stat : reqs[r].stat[i] = "pending"
        /\ reqs[r].sent = <<>>
        /\ reqs[r].nexts = <<>>

\* The invocation was called and has no check outstanding.
Settled(r) == Called(r) /\ ~InFlight(r)

\* C15: the outcome of an invocation is a function of the flag value when
\* it is read, the results of its own checks and the request path and
\* method only: two settled invocations that agree on path, method and
\* check results both read the flag or both do not, and if they agree on
\* the value read they have the same outcome, whatever was handled before
\* or concurrently.
C15_OutcomeIsFunction ==
    \A r1, r2 \in Reqs :
        (/\ Settled(r1) /\ Settled(r2)
         /\ pathname(reqs[r1].url) = pathname(reqs[r2].url)
         /\ reqs[r1].method = reqs[r2].method
         /\ reqs[r1].stat = reqs[r2].stat) =>
            /\ reqs[r1].read = "none" <=> reqs[r2].read = "none"
            /\ reqs[r1].read = reqs[r2].read =>
                  /\ reqs[r1].sent = reqs[r2].sent
                  /\ reqs[r1].nexts = reqs[r2].nexts
                  /\ reqs[r1].pc = reqs[r2].pc

\* Two invocations of the same request, a control operation having run
\* while checks were outstanding, had the same check fail and the other
\* succeed, and both forwarded the error.
C15_Witness ==
    \E r1, r2 \in Reqs :
        /\ r1 # r2
        /\ Settled(r1) /\ Settled(r2)
        /\ reqs[r1].url = reqs[r2].url
        /\ reqs[r1].stat = reqs[r2].stat
        /\ Len(reqs[r1].stat) >= 2
        /\ reqs[r1].stat[1] = "err"
        /\ reqs[r1].stat[2] = "ok"
        /\ reqs[r1].nexts = <<"err">>
        /\ reqs[r2].nexts = <<"err">>
        /\ lastOp.busy

\* What the pipeline observes of an invocation.
Outcome(req) == <<req.pc, req.sent, req.nexts>>

\* C17: run on the same requests, flag operations and check results, the
\* final and the earlier handler have the same outcome, except when every
\* check succeeded and the flag was read false: then the final handler
\* wrote 503 and the earlier one 200.  While no invocation read the flag
\* false they are indistinguishable.
C17_VariantsAgree ==
    \A r \in Reqs :
        IF AllStatOk(r) /\ reqs[r].read = "false"
        THEN /\ Outcome(reqs[r]) = <<"returned", <<503>>, <<>> >>
             /\ Outcome(reqsEarlier[r]) = <<"returned", <<200>>, <<>> >>
        ELSE Outcome(reqs[r]) = Outcome(reqsEarlier[r])

\* One invocation was answered 503 by the final and 200 by the earlier
\* handler; another, on the fast path or with the flag true, alike by both.
C17_Witness ==
    /\ AllStatOk(1)
    /\ reqs[1].sent = <<503>>
    /\ reqsEarlier[1].sent = <<200>>
    /\ MaxReq >= 2
    /\ AllStatOk(2)
    /\ reqs[2].sent = <<200>>
    /\ reqsEarlier[2].sent = <<200>>
====
